---- MODULE Spec2Model ----
(***************************************************************************)
(* A model of matgl's structure-to-graph converter, the training modules   *)
(* (loss composition, construction, checkpoint loading, scheduler          *)
(* stepping, gradient mode), xavier_init and the Normalizer.               *)
(*                                                                         *)
(* Tensors are sequences; real numbers are exact rationals [n, d] with     *)
(* d > 0, and not-a-number is the record with d = 0.  A non-negative real  *)
(* that is a square root (an RMSE, an initialisation bound) is carried as  *)
(* the record of its radicand, so that equality and order stay exact.      *)
(* The Normalizer, whose round trip depends on it, rounds every operation  *)
(* to a float.                                                             *)
(***************************************************************************)
EXTENDS Integers, Sequences, FiniteSets, TLC

VARIABLES
    gArgs, gRet,            \* GraphConverter.get_graph: arguments, returned value
    cArgs, cRet,            \* PotentialLightningModule.__init__: arguments, outcome
    self, batch, results,   \* PotentialLightningModule: module, batch, loss_fn's result
    live, checkpoint, ckPc, \* on_load_checkpoint: live state_dict, checkpoint, position
    kind, sched, epochs, batchIdx, globalStep, gradEnabled, logged,  \* the training loop
    hook,                   \* the hook the trainer called last
    xArgs, xRet,            \* xavier_init: arguments, parameters afterwards
    nArgs, normalizer, nData, nOp  \* Normalizer: arguments, object, data, last operation

gvars == <<gArgs, gRet>>
cvars == <<cArgs, cRet>>
lvars == <<self, batch, results>>
kvars == <<live, checkpoint, ckPc>>
tvars == <<kind, sched, epochs, batchIdx, globalStep, gradEnabled, logged, hook>>
xvars == <<xArgs, xRet>>
nvars == <<nArgs, normalizer, nData, nOp>>
vars == <<gvars, cvars, lvars, kvars, tvars, xvars, nvars>>

\* A component that a specification does not exercise stays in this state.
NoCall == [pc |-> "unused"]
GraphIdle == gArgs = NoCall /\ gRet = NoCall
ConstructIdle == cArgs = NoCall /\ cRet = NoCall
LossIdle == self = NoCall /\ batch = NoCall /\ results = NoCall
CkptIdle == live = NoCall /\ checkpoint = NoCall /\ ckPc = "unused"
TrainIdle ==
    /\ kind = "unused" /\ sched = 0 /\ epochs = 0 /\ batchIdx = 0
    /\ globalStep = 0 /\ gradEnabled = FALSE /\ logged = {} /\ hook = "unused"
XavierIdle == xArgs = NoCall /\ xRet = NoCall
NormIdle == nArgs = NoCall /\ normalizer = NoCall /\ nData = NoCall /\ nOp = "unused"

Pending == [pc |-> "pending"]

----------------------------------------------------------------------------
(* Sequence helpers *)

Range(s) == {s[i] : i \in 1..Len(s)}

RECURSIVE SumSeq(_)
SumSeq(s) == IF s = <<>> THEN 0 ELSE Head(s) + SumSeq(Tail(s))

SetMax(S) == CHOOSE x \in S : \A y \in S : y <= x

\* All sequences over S of length 0..n
SeqsUpTo(S, n) == UNION {[1..k -> S] : k \in 0..n}

----------------------------------------------------------------------------
(* GraphConverter.get_graph  (src/matgl/graph/converters.py)               *)

MaxAtoms == 3
MaxEdges == 2

\* dgl.graph((u, v)): the node count is inferred as the largest index + 1
\* (0 for an empty edge list); edges keep the order of the input.
DglNumNodes(u, v) ==
    IF Len(u) = 0 THEN 0 ELSE SetMax(Range(u) \cup Range(v)) + 1

\* a lookup that gives position 0 for a value that is not in the list
ListIndexOrZero(lst, x) ==
    IF x \in Range(lst)
    THEN (CHOOSE i \in 1..Len(lst) : lst[i] = x /\ \A j \in 1..(i - 1) : lst[j] # x) - 1
    ELSE 0

\* list.index: the 0-based position of the first occurrence, -1 for ValueError
ListIndex(lst, x) ==
    IF x \in Range(lst)
    THEN (CHOOSE i \in 1..Len(lst) : lst[i] = x /\ \A j \in 1..(i - 1) : lst[j] # x) - 1
    ELSE -1

\* the lattice stored once instead of once per edge
NpRepeatOnce(a, k) == a

\* np.repeat(lattice_matrix, k, axis=0): every entry along the first axis k times
NpRepeat(a, k) == [i \in 1..(Len(a) * k) |-> a[((i - 1) \div k) + 1]]

\* the product with the first row of the matrix alone
MatMulFirstRow(a, m) ==
    [i \in 1..Len(a) |-> [j \in 1..Len(m[1]) |-> a[i][1] * m[1][j]]]

\* torch.matmul of an (m x 3) tensor with a (3 x 3) matrix
MatMul(a, m) ==
    [i \in 1..Len(a) |->
        [j \in 1..Len(m[1]) |-> SumSeq([k \in 1..Len(m) |-> a[i][k] * m[k][j]])]]

\* get_graph without the padding of isolated atoms
AddNodesDropped(num_nodes, k) == num_nodes

\* g.add_nodes(k): DGL refuses a negative count
AddNodes(num_nodes, k) == num_nodes + k

get_graph(structure, src_id, dst_id, images, lattice_matrix, Z, element_types, cart_coords) ==
    LET u == src_id
        v == dst_id
        n0 == DglNumNodes(u, v)
        n_missing_node == Len(structure) - n0
        num_nodes == AddNodes(n0, n_missing_node)
        num_edges == Len(u)
        node_type == [i \in 1..Len(structure) |-> ListIndex(element_types, structure[i])]
    IN  IF n_missing_node < 0 THEN [pc |-> "raised", error |-> "DGLError"]
        ELSE IF \E i \in 1..Len(structure) : node_type[i] = -1
        THEN [pc |-> "raised", error |-> "ValueError"]
        ELSE [pc |-> "returned",
              num_nodes |-> num_nodes,
              edges |-> [src |-> u, dst |-> v],
              edata |-> [pbc_offset |-> images,
                         lattice |-> NpRepeat(lattice_matrix, num_edges),
                         pbc_offshift |-> MatMul(images, lattice_matrix[1])],
              ndata |-> [attr |-> Z, node_type |-> node_type, pos |-> cart_coords],
              state_attr |-> <<0, 0>>]

\* Inputs of get_graph
Structures(n) ==
    { [i \in 1..n |-> "Li"],
      [i \in 1..n |-> IF i % 2 = 1 THEN "Li" ELSE "O"],
      [i \in 1..n |-> "O"] }
ElementTypes == { <<"Li", "O">>, <<"O", "Li">>, <<"O">> }
Bonds(n) == {p \in (0..(n - 1)) \X (0..(n - 1)) : p[1] # p[2]}
ImageSeqs(m) ==
    { [i \in 1..m |-> <<0, 0, 0>>], [i \in 1..m |-> <<i, 0 - 1, 1>>] }
Lattices ==
    { << <<(<<4, 0, 0>>), (<<0, 4, 0>>), (<<0, 0, 4>>)>> >>,
      << <<(<<2, 0, 0>>), (<<1, 3, 0>>), (<<0, 1, 5>>)>> >> }

\* Four atoms, each bonded to all others, the bonds enumerated by source atom
CompleteDigraph ==
    [structure |-> <<"Li", "O", "Li", "O">>,
     src_id |-> <<0, 0, 0, 1, 1, 1, 2, 2, 2, 3, 3, 3>>,
     dst_id |-> <<1, 2, 3, 0, 2, 3, 0, 1, 3, 0, 1, 2>>,
     images |-> [i \in 1..12 |-> <<0, 0, 0>>],
     lattice_matrix |-> << <<(<<4, 0, 0>>), (<<0, 4, 0>>), (<<0, 0, 4>>)>> >>,
     Z |-> <<3, 8, 3, 8>>,
     element_types |-> <<"Li", "O">>,
     cart_coords |-> [i \in 1..4 |-> <<i - 1, 0, 0>>]]

GraphInit ==
    /\ \/ \E n \in 1..MaxAtoms :
          \E s \in Structures(n), et \in ElementTypes, L \in Lattices :
          \E bonds \in SeqsUpTo(Bonds(n), MaxEdges) :
          \E im \in ImageSeqs(Len(bonds)) :
             gArgs = [structure |-> s,
                      src_id |-> [i \in 1..Len(bonds) |-> bonds[i][1]],
                      dst_id |-> [i \in 1..Len(bonds) |-> bonds[i][2]],
                      images |-> im,
                      lattice_matrix |-> L,
                      Z |-> [i \in 1..n |-> IF s[i] = "Li" THEN 3 ELSE 8],
                      element_types |-> et,
                      cart_coords |-> [i \in 1..n |-> <<i - 1, 0, 0>>]]
       \/ gArgs = CompleteDigraph
    /\ gRet = Pending

GetGraph ==
    /\ gRet = Pending
    /\ gRet' = get_graph(gArgs.structure, gArgs.src_id, gArgs.dst_id, gArgs.images,
                         gArgs.lattice_matrix, gArgs.Z, gArgs.element_types,
                         gArgs.cart_coords)
    /\ UNCHANGED <<gArgs, cvars, lvars, kvars, tvars, xvars, nvars>>

InitGraph ==
    /\ GraphInit /\ ConstructIdle /\ LossIdle /\ CkptIdle /\ TrainIdle /\ XavierIdle /\ NormIdle

SpecGraph == InitGraph /\ [][GetGraph]_vars

----------------------------------------------------------------------------
(* Floating-point values, exactly: rationals and not-a-number *)

RECURSIVE GCD(_, _)
GCD(a, b) == IF b = 0 THEN a ELSE GCD(b, a % b)

IAbs(x) == IF x < 0 THEN 0 - x ELSE x

NaN == [n |-> 0, d |-> 0]
IsNaN(x) == x.d = 0

\* The rational n/d (d # 0) in lowest terms with a positive denominator
Rat(n, d) ==
    LET g == GCD(IAbs(n), IAbs(d))
        sg == IF d < 0 THEN 0 - 1 ELSE 1
    IN  [n |-> (sg * n) \div g, d |-> (sg * d) \div g]

F(i) == [n |-> i, d |-> 1]

FAdd(x, y) == IF IsNaN(x) \/ IsNaN(y) THEN NaN ELSE Rat(x.n * y.d + y.n * x.d, x.d * y.d)
FSub(x, y) == IF IsNaN(x) \/ IsNaN(y) THEN NaN ELSE Rat(x.n * y.d - y.n * x.d, x.d * y.d)
FMul(x, y) == IF IsNaN(x) \/ IsNaN(y) THEN NaN ELSE Rat(x.n * y.n, x.d * y.d)
\* x / y; y = 0 gives not-a-number for 0/0 (the only division by zero the model makes)
FDiv(x, y) == IF IsNaN(x) \/ IsNaN(y) \/ y.n = 0 THEN NaN ELSE Rat(x.n * y.d, x.d * y.n)
FNeg(x) == IF IsNaN(x) THEN NaN ELSE [n |-> 0 - x.n, d |-> x.d]
FAbs(x) == IF IsNaN(x) THEN NaN ELSE [n |-> IAbs(x.n), d |-> x.d]
\* x < y, false when either is not-a-number
FLess(x, y) == ~IsNaN(x) /\ ~IsNaN(y) /\ x.n * y.d < y.n * x.d
FLeq(x, y) == ~IsNaN(x) /\ ~IsNaN(y) /\ x.n * y.d <= y.n * x.d
\* the minimum replaced by its first argument
FMinFirst(x, y) == x

\* torch.min(x, y) of two scalars: not-a-number propagates
FMin(x, y) == IF IsNaN(x) \/ IsNaN(y) THEN NaN ELSE IF FLess(y, x) THEN y ELSE x

\* Elementwise tensor operations
\* the negation of the predictions left out
TNegDropped(t) == t
\* the per-atom normalisation left out
TDivDropped(t, u) == t

TNeg(t) == [i \in 1..Len(t) |-> FNeg(t[i])]
\* the labels left with their sign
TAbsDropped(t) == t
TAbs(t) == [i \in 1..Len(t) |-> FAbs(t[i])]
TDiv(t, u) == [i \in 1..Len(t) |-> FDiv(t[i], u[i])]

RECURSIVE FSum(_)
FSum(t) == IF t = <<>> THEN F(0) ELSE FAdd(Head(t), FSum(Tail(t)))

\* Tensor.mean(): not-a-number (0/0) for an empty tensor
Mean(t) == FDiv(FSum(t), F(Len(t)))

\* A non-negative real given by its square: Root(q) is sqrt(q)
Root(q) == [sqrt_of |-> q]
RootMin(a, b) == Root(FMin(a.sqrt_of, b.sqrt_of))

----------------------------------------------------------------------------
(* Loss functions and metrics  (torch.nn.functional, torchmetrics)         *)

\* F.huber_loss's default delta (loss_params is empty)
HuberDelta == 1

SquaredError(x, y) == FMul(FSub(x, y), FSub(x, y))
\* the error with its sign
AbsoluteErrorSigned(x, y) == FSub(x, y)
AbsoluteError(x, y) == FAbs(FSub(x, y))
HuberError(x, y) ==
    LET a == FAbs(FSub(x, y))
    IN  IF IsNaN(a) THEN NaN
        ELSE IF FLess(a, F(HuberDelta))
        THEN FMul(Rat(1, 2), FMul(a, a))
        ELSE FMul(F(HuberDelta), FSub(a, FMul(Rat(1, 2), F(HuberDelta))))

mse_loss(x, y) == Mean([i \in 1..Len(x) |-> SquaredError(x[i], y[i])])
l1_loss(x, y) == Mean([i \in 1..Len(x) |-> AbsoluteError(x[i], y[i])])
huber_loss(x, y) == Mean([i \in 1..Len(x) |-> HuberError(x[i], y[i])])

\* The function object that __init__ stored as self.loss, applied
Loss(fn, x, y) ==
    CASE fn = "mse_loss" -> mse_loss(x, y)
      [] fn = "huber_loss" -> huber_loss(x, y)
      [] OTHER -> l1_loss(x, y)

\* torchmetrics.MeanAbsoluteError / MeanSquaredError(squared=False), the value
\* forward() returns for the batch it is given
MeanAbsoluteError(x, y) == l1_loss(x, y)
RootMeanSquaredError(x, y) == Root(mse_loss(x, y))

\* torch.zeros(1)
Zeros1 == F(0)

----------------------------------------------------------------------------
(* PotentialLightningModule.__init__  (src/matgl/utils/training.py)        *)

\* __init__ with the last check made after the buffers are registered
InitStmtsLateAssert ==
    << [op |-> "assert", name |-> "energy_weight"],
       [op |-> "assert", name |-> "force_weight"],
       [op |-> "assert", name |-> "stress_weight"],
       [op |-> "set", name |-> "training"],
       [op |-> "set", name |-> "mae"],
       [op |-> "set", name |-> "rmse"],
       [op |-> "set", name |-> "data_mean"],
       [op |-> "set", name |-> "data_std"],
       [op |-> "assert", name |-> "site_wise_weight"],
       [op |-> "set", name |-> "energy_weight"],
       [op |-> "set", name |-> "force_weight"],
       [op |-> "set", name |-> "stress_weight"],
       [op |-> "set", name |-> "site_wise_weight"],
       [op |-> "set", name |-> "model"],
       [op |-> "set", name |-> "loss"],
       [op |-> "set", name |-> "hparams"] >>

\* The statements of __init__, in the order of the source
InitStmts ==
    << [op |-> "assert", name |-> "energy_weight"],
       [op |-> "assert", name |-> "force_weight"],
       [op |-> "assert", name |-> "stress_weight"],
       [op |-> "assert", name |-> "site_wise_weight"],
       [op |-> "set", name |-> "training"],          \* super().__init__(**kwargs)
       [op |-> "set", name |-> "mae"],
       [op |-> "set", name |-> "rmse"],
       [op |-> "set", name |-> "data_mean"],         \* register_buffer
       [op |-> "set", name |-> "data_std"],          \* register_buffer
       [op |-> "set", name |-> "energy_weight"],
       [op |-> "set", name |-> "force_weight"],
       [op |-> "set", name |-> "stress_weight"],
       [op |-> "set", name |-> "site_wise_weight"],
       [op |-> "set", name |-> "lr"],
       [op |-> "set", name |-> "decay_steps"],
       [op |-> "set", name |-> "decay_alpha"],
       [op |-> "set", name |-> "model"],             \* Potential(...)
       [op |-> "set", name |-> "loss"],
       [op |-> "set", name |-> "loss_params"],
       [op |-> "set", name |-> "optimizer"],
       [op |-> "set", name |-> "scheduler"],
       [op |-> "set", name |-> "sync_dist"],
       [op |-> "set", name |-> "allow_missing_labels"],
       [op |-> "set", name |-> "site_wise_target"],
       [op |-> "set", name |-> "hparams"] >>         \* save_hyperparameters()

\* The value each statement of __init__ stores
InitValue(name, args) ==
    CASE name = "training" -> TRUE
      [] name = "mae" -> "MeanAbsoluteError"
      [] name = "rmse" -> "MeanSquaredError(squared=False)"
      [] name = "model" ->
            [calc_stresses |-> args.stress_weight # 0,
             calc_site_wise |-> args.site_wise_weight # 0,
             data_std |-> args.data_std,
             data_mean |-> args.data_mean]
      [] name = "loss" ->
            IF args.loss = "mse_loss" THEN "mse_loss"
            ELSE IF args.loss = "huber_loss" THEN "huber_loss"
            ELSE "l1_loss"
      [] name = "loss_params" -> <<>>
      [] name = "hparams" -> args
      [] OTHER -> args[name]

\* Runs the statements from position i on object obj; a failed assertion
\* raises and leaves the object as it is at that point.
RECURSIVE RunInit(_, _, _, _)
RunInit(stmts, i, args, obj) ==
    IF i > Len(stmts) THEN [pc |-> "returned", module |-> obj]
    ELSE IF stmts[i].op = "assert"
    THEN IF args[stmts[i].name] >= 0
         THEN RunInit(stmts, i + 1, args, obj)
         ELSE [pc |-> "raised", error |-> "AssertionError",
               message |-> stmts[i].name, module |-> obj]
    ELSE RunInit(stmts, i + 1, args,
                 (stmts[i].name :> InitValue(stmts[i].name, args)) @@ obj)

\* An object with no attribute yet
NewObject == <<>>

PotentialLightningModule(args) == RunInit(InitStmts, 1, args, NewObject)

\* The keyword arguments left at their defaults
DefaultArgs ==
    [data_mean |-> 0, data_std |-> 1, lr |-> "0.001", decay_steps |-> 1000,
     decay_alpha |-> "0.01", optimizer |-> "None", scheduler |-> "None",
     sync_dist |-> FALSE]

WithDefaults(kw) == kw @@ DefaultArgs

LossNames == {"mse_loss", "huber_loss", "l1_loss"}
SiteWiseTargets == {"absolute", "symbreak", "None", "signed"}

ConstructInit ==
    /\ \E ew \in {0 - 1, 0, 1}, fw \in {0 - 1, 0, 2}, sw \in {0 - 1, 0, 1},
          mw \in {0 - 2, 0, 3} :
       \E l \in LossNames :
          cArgs = WithDefaults([energy_weight |-> ew, force_weight |-> fw,
                                stress_weight |-> sw, site_wise_weight |-> mw,
                                loss |-> l, allow_missing_labels |-> FALSE,
                                site_wise_target |-> "absolute"])
    /\ cRet = Pending

Construct ==
    /\ cRet = Pending
    /\ cRet' = PotentialLightningModule(cArgs)
    /\ UNCHANGED <<cArgs, gvars, lvars, kvars, tvars, xvars, nvars>>

InitConstruct ==
    /\ ConstructInit /\ GraphIdle /\ LossIdle /\ CkptIdle /\ TrainIdle /\ XavierIdle /\ NormIdle

SpecConstruct == InitConstruct /\ [][Construct]_vars

----------------------------------------------------------------------------
(* PotentialLightningModule.loss_fn and step                               *)

MaxSites == 2

\* labels[3][valid_values]: the entries whose mask is true, in order
RECURSIVE MaskSelect(_, _)
MaskSelect(t, mask) ==
    IF t = <<>> THEN <<>>
    ELSE IF Head(mask) THEN <<Head(t)>> \o MaskSelect(Tail(t), Tail(mask))
    ELSE MaskSelect(Tail(t), Tail(mask))

\* the mask that keeps every entry
ValidValuesAll(t) == [i \in 1..Len(t) |-> TRUE]

\* ~torch.isnan(labels[3])
ValidValues(t) == [i \in 1..Len(t) |-> ~IsNaN(t[i])]

\* The site-wise block of loss_fn: the loss term to add (or "none") and the
\* two site-wise metrics
SiteWise(slf, loss, labels, preds) ==
    LET masked == slf.allow_missing_labels
        valid_values == ValidValues(labels[4])
        labels_3 == IF masked THEN MaskSelect(labels[4], valid_values) ELSE labels[4]
        preds_3 == IF masked THEN MaskSelect(preds[4], valid_values) ELSE preds[4]
    IN  IF Len(labels_3) > 0
        THEN IF slf.site_wise_target = "symbreak"
             THEN [added |-> TRUE,
                   m_loss |-> FMin(Loss(loss, labels_3, preds_3),
                                   Loss(loss, labels_3, TNeg(preds_3))),
                   m_mae |-> FMin(MeanAbsoluteError(labels_3, preds_3),
                                  MeanAbsoluteError(labels_3, TNeg(preds_3))),
                   m_rmse |-> RootMin(RootMeanSquaredError(labels_3, preds_3),
                                      RootMeanSquaredError(labels_3, TNeg(preds_3)))]
             ELSE LET labels_3a == IF slf.site_wise_target = "absolute"
                                   THEN TAbs(labels_3) ELSE labels_3
                  IN  [added |-> TRUE,
                       m_loss |-> Loss(loss, labels_3a, preds_3),
                       m_mae |-> MeanAbsoluteError(labels_3a, preds_3),
                       m_rmse |-> RootMeanSquaredError(labels_3a, preds_3)]
        ELSE [added |-> FALSE, m_loss |-> F(0),
              m_mae |-> Zeros1, m_rmse |-> Root(Zeros1)]

\* loss_fn(self, loss, labels, preds, num_atoms).  Tuples are 1-based here:
\* labels[1] is the source's labels[0].
loss_fn(slf, loss, labels, preds, num_atoms) ==
    LET e_loss == Loss(slf.loss, TDiv(labels[1], num_atoms), TDiv(preds[1], num_atoms))
        f_loss == Loss(slf.loss, labels[2], preds[2])
        e_mae == MeanAbsoluteError(TDiv(labels[1], num_atoms), TDiv(preds[1], num_atoms))
        f_mae == MeanAbsoluteError(labels[2], preds[2])
        e_rmse == RootMeanSquaredError(TDiv(labels[1], num_atoms), TDiv(preds[1], num_atoms))
        f_rmse == RootMeanSquaredError(labels[2], preds[2])
        total0 == FAdd(FMul(F(slf.energy_weight), e_loss), FMul(F(slf.force_weight), f_loss))
        stress == slf.model.calc_stresses
        s_loss == Loss(loss, labels[3], preds[3])
        total1 == IF stress THEN FAdd(total0, FMul(F(slf.stress_weight), s_loss)) ELSE total0
        site == slf.model.calc_site_wise
        sw == SiteWise(slf, loss, labels, preds)
        total2 == IF site /\ sw.added
                  THEN FAdd(total1, FMul(F(slf.site_wise_weight), sw.m_loss))
                  ELSE total1
    IN  [Total_Loss |-> total2,
         Energy_MAE |-> e_mae,
         Force_MAE |-> f_mae,
         Stress_MAE |-> IF stress THEN MeanAbsoluteError(labels[3], preds[3]) ELSE Zeros1,
         Site_Wise_MAE |-> IF site THEN sw.m_mae ELSE Zeros1,
         Energy_RMSE |-> e_rmse,
         Force_RMSE |-> f_rmse,
         Stress_RMSE |-> IF stress THEN RootMeanSquaredError(labels[3], preds[3])
                         ELSE Root(Zeros1),
         Site_Wise_RMSE |-> IF site THEN sw.m_rmse ELSE Root(Zeros1)]

\* PotentialLightningModule.step: the batch carries the labels and, as e, f, s
\* and m, what the forward pass returns for it
PotentialStepResults(slf, b) ==
    LET site == slf.model.calc_site_wise
        preds == IF site THEN <<b.e, b.f, b.s, b.m>> ELSE <<b.e, b.f, b.s>>
        labels == IF site THEN <<b.energies, b.forces, b.stresses, b.site_wise>>
                  ELSE <<b.energies, b.forces, b.stresses>>
        num_atoms == [i \in 1..Len(b.num_atoms) |-> F(b.num_atoms[i])]
    IN  [results |-> loss_fn(slf, slf.loss, labels, preds, num_atoms),
         batch_size |-> Len(preds[1])]

\* Batches: num_atoms is a composition of the number of sites
Compositions(S) == {c \in SeqsUpTo(1..S, S) : Len(c) > 0 /\ SumSeq(c) = S}
\* (label, prediction) of one site
SitePairs ==
    { <<NaN, F(1)>>, <<F(0 - 1), F(0 - 1)>>, <<F(2), F(0 - 1)>>, <<F(0 - 1), F(1)>> }

SiteWiseBatches(S) ==
    { [site_wise |-> [i \in 1..S |-> p[i][1]], m |-> [i \in 1..S |-> p[i][2]]] :
      p \in [1..S -> SitePairs] }

Batches(site) ==
    UNION { { [num_atoms |-> c,
               energies |-> [i \in 1..Len(c) |-> F(2)],
               e |-> [i \in 1..Len(c) |-> F(2 - dE)],
               forces |-> [i \in 1..S |-> F(1)],
               f |-> [i \in 1..S |-> F(1 + i)],
               stresses |-> [i \in 1..Len(c) |-> F(0)],
               s |-> [i \in 1..Len(c) |-> F(i)]] @@ sw :
              c \in Compositions(S), dE \in {0, 2},
              sw \in IF site THEN SiteWiseBatches(S) ELSE {<<>>} } : S \in 1..MaxSites }

LossInit ==
    /\ \E sw \in {0, 1}, mw \in {0, 3}, l \in LossNames, am \in BOOLEAN,
          t \in SiteWiseTargets :
          self = PotentialLightningModule(
                    WithDefaults([energy_weight |-> 1, force_weight |-> 2,
                                  stress_weight |-> sw, site_wise_weight |-> mw,
                                  loss |-> l, allow_missing_labels |-> am,
                                  site_wise_target |-> t])).module
    /\ batch \in Batches(self.model.calc_site_wise)
    /\ results = Pending

\* A training, validation, test or predict step of the potential module
PotentialStep ==
    /\ results = Pending
    /\ results' = PotentialStepResults(self, batch).results
    /\ gradEnabled' = TRUE
    /\ UNCHANGED <<self, batch, gvars, cvars, kvars, xvars, nvars,
                   kind, sched, epochs, batchIdx, globalStep, logged, hook>>

InitLoss ==
    /\ LossInit /\ GraphIdle /\ ConstructIdle /\ CkptIdle /\ TrainIdle /\ XavierIdle /\ NormIdle

SpecLoss == InitLoss /\ [][PotentialStep]_vars

----------------------------------------------------------------------------
(* PotentialLightningModule.on_load_checkpoint                             *)

MaxKeys == 3

\* The keys of a state_dict in iteration order
RECURSIVE KeysInOrder(_)
KeysInOrder(K) ==
    IF K = {} THEN <<>>
    ELSE LET k == CHOOSE x \in K : \A y \in K : x <= y
         IN  <<k>> \o KeysInOrder(K \ {k})

\* checkpoint["state_dict"][key] = self.state_dict()[key]
SetItem(sd, key, value) == (key :> value) @@ sd

\* the loop copying nothing
BackfillNothing(keys, sd, state_dict) == sd

\* The loop over self.state_dict().keys()
RECURSIVE Backfill(_, _, _)
Backfill(keys, sd, state_dict) ==
    IF keys = <<>> THEN sd
    ELSE LET key == Head(keys)
         IN  Backfill(Tail(keys),
                      IF key \notin DOMAIN sd THEN SetItem(sd, key, state_dict[key]) ELSE sd,
                      state_dict)

\* A state_dict: some of the keys 1..MaxKeys, each with a tensor
StateDicts(values) == UNION {[K -> values] : K \in SUBSET (1..MaxKeys)}

CkptInit ==
    /\ live \in StateDicts({"fresh_a", "fresh_b"})
    /\ \E sd \in StateDicts({"saved_a", "saved_b"}) :
          checkpoint = [state_dict |-> sd, epoch |-> 7]
    /\ ckPc = "pending"

on_load_checkpoint ==
    /\ ckPc = "pending"
    /\ checkpoint' = [checkpoint EXCEPT
                        !.state_dict = Backfill(KeysInOrder(DOMAIN live), @, live)]
    /\ ckPc' = "done"
    /\ UNCHANGED <<live, gvars, cvars, lvars, tvars, xvars, nvars>>

InitCkpt ==
    /\ CkptInit /\ GraphIdle /\ ConstructIdle /\ LossIdle /\ TrainIdle /\ XavierIdle /\ NormIdle

SpecCkpt == InitCkpt /\ [][on_load_checkpoint]_vars

----------------------------------------------------------------------------
(* MatglLightningModuleMixin: the hooks the trainer calls                  *)

MaxEpochs == 2
MaxBatches == 2

\* a step that leaves gradients enabled for the potential module alone
GradAfterStepDisabling(k, g) == k = "Potential"

\* self.step(batch): the potential module enables gradients, the property
\* module leaves the mode alone
GradAfterStep(k, g) == IF k = "Potential" THEN TRUE ELSE g

TrainInit ==
    /\ kind \in {"Model", "Potential"}
    /\ gradEnabled \in BOOLEAN
    /\ sched = 0 /\ epochs = 0 /\ batchIdx = 0 /\ globalStep = 0
    /\ logged = {}
    /\ hook = "none"

\* training_step that also steps the scheduler
training_step_stepping ==
    /\ batchIdx < MaxBatches
    /\ gradEnabled' = GradAfterStep(kind, gradEnabled)
    /\ logged' = logged \cup {"train_"}
    /\ batchIdx' = batchIdx + 1
    /\ globalStep' = globalStep + 1
    /\ sched' = sched + 1
    /\ hook' = "training_step"
    /\ UNCHANGED <<kind, epochs, gvars, cvars, lvars, kvars, xvars, nvars>>

training_step ==
    /\ batchIdx < MaxBatches
    /\ gradEnabled' = GradAfterStep(kind, gradEnabled)
    /\ logged' = logged \cup {"train_"}
    /\ batchIdx' = batchIdx + 1
    /\ globalStep' = globalStep + 1
    /\ hook' = "training_step"
    /\ UNCHANGED <<kind, sched, epochs, gvars, cvars, lvars, kvars, xvars, nvars>>

on_train_epoch_end ==
    /\ epochs < MaxEpochs
    /\ sched' = sched + 1
    /\ epochs' = epochs + 1
    /\ batchIdx' = 0
    /\ hook' = "on_train_epoch_end"
    /\ UNCHANGED <<kind, globalStep, gradEnabled, logged, gvars, cvars, lvars, kvars, xvars, nvars>>

validation_step ==
    /\ gradEnabled' = GradAfterStep(kind, gradEnabled)
    /\ logged' = logged \cup {"val_"}
    /\ hook' = "validation_step"
    /\ UNCHANGED <<kind, sched, epochs, batchIdx, globalStep, gvars, cvars, lvars, kvars, xvars, nvars>>

test_step ==
    /\ gradEnabled' = TRUE
    /\ logged' = logged \cup {"test_"}
    /\ hook' = "test_step"
    /\ UNCHANGED <<kind, sched, epochs, batchIdx, globalStep, gvars, cvars, lvars, kvars, xvars, nvars>>

on_test_model_eval ==
    /\ gradEnabled' = TRUE
    /\ hook' = "on_test_model_eval"
    /\ UNCHANGED <<kind, sched, epochs, batchIdx, globalStep, logged,
                   gvars, cvars, lvars, kvars, xvars, nvars>>

predict_step ==
    /\ gradEnabled' = TRUE
    /\ hook' = "predict_step"
    /\ UNCHANGED <<kind, sched, epochs, batchIdx, globalStep, logged,
                   gvars, cvars, lvars, kvars, xvars, nvars>>

TrainNext ==
    \/ training_step
    \/ on_train_epoch_end
    \/ validation_step
    \/ test_step
    \/ on_test_model_eval
    \/ predict_step

InitTrain ==
    /\ TrainInit /\ GraphIdle /\ ConstructIdle /\ LossIdle /\ CkptIdle /\ XavierIdle /\ NormIdle

SpecTrain == InitTrain /\ [][TrainNext]_vars

----------------------------------------------------------------------------
(* xavier_init  (src/matgl/utils/training.py)                              *)

MaxParams == 2

\* str.endswith on names given as sequences of characters
EndsWith(name, suffix) ==
    /\ Len(name) >= Len(suffix)
    /\ SubSeq(name, Len(name) - Len(suffix) + 1, Len(name)) = suffix

DotBias == <<".", "b", "i", "a", "s">>

\* name.endswith(".bias")
IsBiasName(name) == EndsWith(name, DotBias)

\* gain * math.sqrt(6) / math.sqrt(2 * fan), for gain >= 0, as a square root
Bound(gain, fan) == Root(Rat(gain * gain * 6, 2 * fan))

\* bound ** 2, a non-negative real, given like every other by its square
Squared(r) == Root(FMul(r.sqrt_of, r.sqrt_of))

\* -bound
Minus(r) == [minus |-> r]

\* The body of the loop for one parameter: what its data is filled with
InitParam(param, gain, distribution) ==
    IF IsBiasName(param.name)
    THEN [pc |-> "ok", data |-> [fill |-> "zeros"]]
    ELSE IF Len(param.shape) < 2
    THEN IF Len(param.shape) = 0
         THEN [pc |-> "raised", error |-> "IndexError"]      \* param.shape[0]
         ELSE LET bound == Bound(gain, param.shape[1])
              IN  IF distribution = "uniform"
                  THEN [pc |-> "ok",
                        data |-> [fill |-> "uniform", low |-> Minus(bound), high |-> bound]]
                  ELSE [pc |-> "ok",
                        data |-> [fill |-> "normal", mean |-> F(0), std |-> Squared(bound)]]
    ELSE [pc |-> "ok",
          data |-> [fill |-> IF distribution = "uniform" THEN "xavier_uniform_"
                             ELSE "xavier_normal_",
                    gain |-> gain]]

\* The loop over model.named_parameters() from position i on
RECURSIVE InitLoop(_, _, _, _)
InitLoop(params, i, gain, distribution) ==
    IF i > Len(params) THEN [pc |-> "returned", params |-> params]
    ELSE LET r == InitParam(params[i], gain, distribution)
         IN  IF r.pc = "raised"
             THEN [pc |-> "raised", error |-> r.error, params |-> params]
             ELSE InitLoop([params EXCEPT ![i].data = r.data], i + 1, gain, distribution)

\* xavier_init without the check of the distribution option
xavier_init_unchecked(model, gain, distribution) ==
    InitLoop(model, 1, gain, distribution)

xavier_init(model, gain, distribution) ==
    IF distribution \notin {"uniform", "normal"}
    THEN [pc |-> "raised", error |-> "ValueError", message |-> distribution,
          params |-> model]
    ELSE InitLoop(model, 1, gain, distribution)

\* Models: named parameters with distinct names, in registration order
ParamNames ==
    { <<"b", "i", "a", "s">>,
      <<"l", ".", "b", "i", "a", "s">>,
      <<"l", ".", "w">>,
      <<"w">> }
ParamShapes == { <<>>, <<1>>, <<3>>, <<2, 3>> }
AsConstructed == [fill |-> "as_constructed"]
Models ==
    { m \in UNION {[1..k -> [name : ParamNames, shape : ParamShapes, data : {AsConstructed}]] :
                   k \in 1..MaxParams} :
        \A i, j \in 1..Len(m) : i # j => m[i].name # m[j].name }

XavierInit ==
    /\ \E m \in Models, g \in {1, 2}, dist \in {"uniform", "normal", "gaussian"} :
          xArgs = [model |-> m, gain |-> g, distribution |-> dist]
    /\ xRet = Pending

XavierCall ==
    /\ xRet = Pending
    /\ xRet' = xavier_init(xArgs.model, xArgs.gain, xArgs.distribution)
    /\ UNCHANGED <<xArgs, gvars, cvars, lvars, kvars, tvars, nvars>>

InitXavier ==
    /\ XavierInit /\ GraphIdle /\ ConstructIdle /\ LossIdle /\ CkptIdle /\ TrainIdle /\ NormIdle

SpecXavier == InitXavier /\ [][XavierCall]_vars

----------------------------------------------------------------------------
(* ModelLightningModule: __init__, loss_fn, step and the steps the trainer *)
(* calls  (src/matgl/utils/training.py)                                    *)

MaxLabels == 2

\* ModelLightningModule.__init__
ModelLightningModule(args) ==
    [mae |-> "MeanAbsoluteError",
     rmse |-> "MeanSquaredError(squared=False)",
     data_mean |-> args.data_mean,
     data_std |-> args.data_std,
     lr |-> args.lr,
     decay_steps |-> args.decay_steps,
     decay_alpha |-> args.decay_alpha,
     loss |-> IF args.loss = "mse_loss" THEN "mse_loss" ELSE "l1_loss",
     optimizer |-> args.optimizer,
     scheduler |-> args.scheduler,
     sync_dist |-> args.sync_dist,
     hparams |-> args]

\* The defaults of ModelLightningModule.__init__ (lr as 1/1000, decay_alpha as 1/100)
ModelDefaults ==
    [data_mean |-> F(0), data_std |-> F(1), loss |-> "mse_loss", optimizer |-> "None",
     scheduler |-> "None", lr |-> Rat(1, 1000), decay_steps |-> 1000,
     decay_alpha |-> Rat(1, 100), sync_dist |-> FALSE]

\* the raw predictions, not rescaled
ScaledPredRaw(slf, preds) == preds

\* preds * self.data_std + self.data_mean
ScaledPred(slf, preds) ==
    [i \in 1..Len(preds) |-> FAdd(FMul(preds[i], slf.data_std), slf.data_mean)]

\* torch.reshape(t, labels.size()) of a tensor with as many elements as
\* labels: the same elements in the same order
Reshape(t, labels) == [i \in 1..Len(labels) |-> t[i]]

\* ModelLightningModule.loss_fn
model_loss_fn(slf, loss, labels, preds) ==
    LET scaled_pred == Reshape(ScaledPred(slf, preds), labels)
        total_loss == Loss(loss, labels, scaled_pred)
        mae == MeanAbsoluteError(labels, scaled_pred)
        rmse == RootMeanSquaredError(labels, scaled_pred)
    IN  [Total_Loss |-> total_loss, MAE |-> mae, RMSE |-> rmse]

\* ModelLightningModule.step: the batch carries the labels and, as preds,
\* what the forward pass returns for it
model_step(slf, b) ==
    [results |-> model_loss_fn(slf, slf.loss, b.labels, b.preds),
     batch_size |-> Len(b.preds)]

ModelLosses == {"mse_loss", "l1_loss", "huber_loss"}
ModelLabels == {F(0), F(2), F(0 - 1)}
ModelPreds == {F(0), F(1), F(0 - 1)}

ModelInit ==
    /\ \E mean \in {F(0), F(1)}, std \in {F(1), F(2), Rat(1, 2)}, l \in ModelLosses :
          self = ModelLightningModule(
                    [ModelDefaults EXCEPT !.data_mean = mean, !.data_std = std,
                                          !.loss = l])
    /\ \E k \in 1..MaxLabels :
          \E labels \in [1..k -> ModelLabels], preds \in [1..k -> ModelPreds] :
             batch = [labels |-> labels, preds |-> preds]
    /\ results = Pending

\* MatglLightningModuleMixin.training_step on a ModelLightningModule
ModelTrainingStep ==
    /\ results = Pending
    /\ LET r == model_step(self, batch).results
       IN  results' = [hook |-> "training_step", results |-> r,
                       returned |-> r.Total_Loss]
    /\ logged' = logged \cup {"train_"}
    /\ UNCHANGED <<self, batch, gvars, cvars, kvars, xvars, nvars,
                   kind, sched, epochs, batchIdx, globalStep, gradEnabled, hook>>

\* MatglLightningModuleMixin.validation_step on a ModelLightningModule
ModelValidationStep ==
    /\ results = Pending
    /\ LET r == model_step(self, batch).results
       IN  results' = [hook |-> "validation_step", results |-> r,
                       returned |-> r.Total_Loss]
    /\ logged' = logged \cup {"val_"}
    /\ UNCHANGED <<self, batch, gvars, cvars, kvars, xvars, nvars,
                   kind, sched, epochs, batchIdx, globalStep, gradEnabled, hook>>

\* MatglLightningModuleMixin.test_step on a ModelLightningModule
ModelTestStep ==
    /\ results = Pending
    /\ gradEnabled' = TRUE
    /\ LET r == model_step(self, batch).results
       IN  results' = [hook |-> "test_step", results |-> r, returned |-> r]
    /\ logged' = logged \cup {"test_"}
    /\ UNCHANGED <<self, batch, gvars, cvars, kvars, xvars, nvars,
                   kind, sched, epochs, batchIdx, globalStep, hook>>

ModelNext == ModelTrainingStep \/ ModelValidationStep \/ ModelTestStep

InitModel ==
    /\ ModelInit /\ GraphIdle /\ ConstructIdle /\ CkptIdle /\ TrainIdle /\ XavierIdle
    /\ NormIdle

SpecModel == InitModel /\ [][ModelNext]_vars

----------------------------------------------------------------------------
(* Normalizer  (src/matgl/data/transformer.py)                             *)
(* The data is a float tensor: every arithmetic operation gives the exact  *)
(* result rounded to the nearest float (ties to even).  The floats are     *)
(* binary with MantissaBits significant bits and an unbounded exponent.    *)

MantissaBits == 8

RECURSIVE Pow2(_)
Pow2(k) == IF k = 0 THEN 1 ELSE 2 * Pow2(k - 1)

\* n/d scaled up by powers of two until n/d >= 2^(MantissaBits-1): <<n', factor>>
RECURSIVE ScaleUp(_, _, _)
ScaleUp(n, d, f) ==
    IF n < Pow2(MantissaBits - 1) * d THEN ScaleUp(2 * n, d, 2 * f) ELSE <<n, f>>

\* n/d scaled down by powers of two until n/d < 2^MantissaBits: <<d', factor>>
RECURSIVE ScaleDown(_, _, _)
ScaleDown(n, d, f) ==
    IF n >= Pow2(MantissaBits) * d THEN ScaleDown(n, 2 * d, 2 * f) ELSE <<d, f>>

\* The float nearest to the real q, ties to the even mantissa
Round(q) ==
    IF IsNaN(q) \/ q.n = 0 THEN q
    ELSE LET up == ScaleUp(IAbs(q.n), q.d, 1)
             dn == ScaleDown(up[1], q.d, 1)
             m == up[1] \div dn[1]
             r == up[1] % dn[1]
             mantissa == IF 2 * r > dn[1] \/ (2 * r = dn[1] /\ m % 2 = 1)
                         THEN m + 1 ELSE m
             sign == IF q.n < 0 THEN 0 - 1 ELSE 1
         IN  Rat(sign * mantissa * dn[2], up[2])

\* Float arithmetic: x - y, x / y, x * y, x + y
FlSub(x, y) == Round(FSub(x, y))
FlDiv(x, y) == Round(FDiv(x, y))
FlMul(x, y) == Round(FMul(x, y))
FlAdd(x, y) == Round(FAdd(x, y))

\* Normalizer.__init__
Normalizer(mean, std) == [mean |-> mean, std |-> std]

\* Normalizer.transform
transform(slf, data) == FlDiv(FlSub(data, slf.mean), slf.std)

\* inverse_transform that leaves the mean out
inverse_transform_unshifted(slf, data) == FlMul(data, slf.std)

\* Normalizer.inverse_transform
inverse_transform(slf, data) == FlAdd(FlMul(data, slf.std), slf.mean)

\* Floats given to the Normalizer and to its operations
NormMeans == {F(0), F(2), F(0 - 1), Rat(1, 4)}
NormStds == {Rat(1, 2), F(1), F(3), F(23), F(49), F(0 - 2)}
NormData == {F(0), F(1), F(2), F(3), F(7), F(14), F(0 - 5), Rat(3, 8)}

NormInit ==
    /\ \E mean \in NormMeans, std \in NormStds, x \in NormData :
          /\ nArgs = [mean |-> mean, std |-> std, data |-> x]
          /\ normalizer = Normalizer(mean, std)
          /\ nData = x
    /\ nOp = "none"

Transform ==
    /\ nOp = "none"
    /\ nData' = transform(normalizer, nData)
    /\ nOp' = "transform"
    /\ UNCHANGED <<nArgs, normalizer, gvars, cvars, lvars, kvars, tvars, xvars>>

InverseTransform ==
    /\ nOp \in {"none", "transform"}
    /\ nData' = inverse_transform(normalizer, nData)
    /\ nOp' = IF nOp = "transform" THEN "round_trip" ELSE "inverse_transform"
    /\ UNCHANGED <<nArgs, normalizer, gvars, cvars, lvars, kvars, tvars, xvars>>

NormNext == Transform \/ InverseTransform

InitNorm ==
    /\ NormInit /\ GraphIdle /\ ConstructIdle /\ LossIdle /\ CkptIdle /\ TrainIdle
    /\ XavierIdle

SpecNorm == InitNorm /\ [][NormNext]_vars

----------------------------------------------------------------------------
(* Properties *)

GraphReturned == gRet.pc = "returned"
BondedAtoms == Range(gArgs.src_id) \cup Range(gArgs.dst_id)
AtomIds == 0..(Len(gArgs.structure) - 1)

\* C1: get_graph returns a graph with exactly len(structure) nodes whenever the
\* bond indices are below len(structure), also when atoms in the middle or at
\* the end of the index range (or all atoms) have no bond; an atom without a
\* bond is a node with no incident edge.
C1_NodeCount ==
    /\ (gRet # Pending /\ Range(gArgs.structure) \subseteq Range(gArgs.element_types))
          => GraphReturned
    /\ GraphReturned =>
          /\ gRet.num_nodes = Len(gArgs.structure)
          /\ \A a \in AtomIds \ BondedAtoms :
                \A i \in 1..Len(gRet.edges.src) :
                    gRet.edges.src[i] # a /\ gRet.edges.dst[i] # a

\* An atom at the end of the index range without a bond, beside bonded atoms
C1_Witness ==
    /\ GraphReturned
    /\ Len(gArgs.src_id) > 0
    /\ (Len(gArgs.structure) - 1) \notin BondedAtoms
    /\ gRet.num_nodes = 3

\* One of the four weights is negative
C3_AnyNegative ==
    \E w \in {"energy_weight", "force_weight", "stress_weight", "site_wise_weight"} :
        cArgs[w] < 0

\* C3: construction fails with an assertion whenever one of the four weights
\* is negative, before any attribute, buffer or hyperparameter of the module
\* exists; with the four weights >= 0 it succeeds.
C3_NegativeWeightsFailFirst ==
    cRet # Pending =>
        IF C3_AnyNegative
        THEN /\ cRet.pc = "raised"
             /\ cRet.error = "AssertionError"
             /\ DOMAIN cRet.module = {}
        ELSE /\ cRet.pc = "returned"
             /\ cRet.module.energy_weight = cArgs.energy_weight
             /\ cRet.module.site_wise_weight = cArgs.site_wise_weight

\* Only the weight checked last is negative
C3_Witness ==
    /\ cRet # Pending
    /\ cRet.pc = "raised"
    /\ cRet.message = "site_wise_weight"
    /\ cArgs.energy_weight > 0 /\ cArgs.force_weight > 0 /\ cArgs.stress_weight > 0

----------------------------------------------------------------------------
(* Properties of loss_fn, stated from the batch *)

StepDone == results # Pending
StressOn == self.stress_weight # 0
SiteOn == self.site_wise_weight # 0

PerAtom(t) == [i \in 1..Len(t) |-> FDiv(t[i], F(batch.num_atoms[i]))]
EnergyTerm == FMul(F(self.energy_weight), Loss(self.loss, PerAtom(batch.energies), PerAtom(batch.e)))
ForceTerm == FMul(F(self.force_weight), Loss(self.loss, batch.forces, batch.f))
StressTerm == FMul(F(self.stress_weight), Loss(self.loss, batch.stresses, batch.s))
BaseTerms ==
    IF StressOn THEN FAdd(FAdd(EnergyTerm, ForceTerm), StressTerm)
    ELSE FAdd(EnergyTerm, ForceTerm)

\* The site-wise (label, prediction) pairs that enter the loss
SitePairsOf(b) == [i \in 1..Len(b.site_wise) |-> <<b.site_wise[i], b.m[i]>>]
HasLabel(q) == ~IsNaN(q[1])
KeptPairs ==
    IF self.allow_missing_labels THEN SelectSeq(SitePairsOf(batch), HasLabel)
    ELSE SitePairsOf(batch)
KeptLabels == [i \in 1..Len(KeptPairs) |-> KeptPairs[i][1]]
KeptPreds == [i \in 1..Len(KeptPairs) |-> KeptPairs[i][2]]
Negated(t) == [i \in 1..Len(t) |-> FNeg(t[i])]
Magnitudes(t) == [i \in 1..Len(t) |-> FAbs(t[i])]
Smaller(x, y) == IF IsNaN(x) \/ IsNaN(y) THEN NaN ELSE IF FLeq(x, y) THEN x ELSE y

\* The site-wise loss under each target policy
SiteLossByPolicy ==
    CASE self.site_wise_target = "symbreak" ->
            Smaller(Loss(self.loss, KeptLabels, KeptPreds),
                    Loss(self.loss, Negated(KeptLabels), KeptPreds))
      [] self.site_wise_target = "absolute" ->
            Loss(self.loss, Magnitudes(KeptLabels), KeptPreds)
      [] OTHER -> Loss(self.loss, KeptLabels, KeptPreds)

\* C2 as stated: Total_Loss = ew*L(E/N, E^/N) + fw*L(F, F^), plus sw*L(S, S^)
\* exactly when stress is enabled, plus mw*L(M, M^) exactly when site-wise is
\* enabled, with one loss function L; no other term.
C2_TotalAsStated ==
    StepDone =>
        results.Total_Loss =
            IF SiteOn
            THEN FAdd(BaseTerms, FMul(F(self.site_wise_weight),
                                      Loss(self.loss, batch.site_wise, batch.m)))
            ELSE BaseTerms

\* C2 amended: the site-wise term is mw*L_site, added exactly when site-wise is
\* enabled and at least one site-wise label is left after the missing-label
\* mask; L_site follows the target policy (|label| under "absolute", the
\* smaller of the two signs' losses under "symbreak", the signed label
\* otherwise) on the entries left.
C2_TotalByPolicy ==
    StepDone =>
        results.Total_Loss =
            IF SiteOn /\ Len(KeptPairs) > 0
            THEN FAdd(BaseTerms, FMul(F(self.site_wise_weight), SiteLossByPolicy))
            ELSE BaseTerms

\* Stress and site-wise enabled, one structure of two atoms, a negative label
C2_Witness ==
    /\ StepDone /\ StressOn /\ SiteOn
    /\ Len(batch.num_atoms) = 1 /\ batch.num_atoms[1] = 2
    /\ batch.e # batch.energies
    /\ \E i \in 1..Len(batch.site_wise) : FLess(batch.site_wise[i], F(0))
    /\ ~IsNaN(results.Total_Loss)

\* The batch without the entries whose label is missing, and the module with
\* the mask switched off
C4_MaskedBatch == [batch EXCEPT !.site_wise = KeptLabels, !.m = KeptPreds]
C4_Unmasking == [a \in DOMAIN self |->
                    IF a = "allow_missing_labels" THEN FALSE ELSE self[a]]

\* C4: with site-wise and allow_missing_labels enabled, entries whose label is
\* not-a-number leave labels and predictions before the site-wise loss and
\* metrics are computed, so Total_Loss is never not-a-number because of them;
\* when every label is not-a-number, Site_Wise_MAE and Site_Wise_RMSE are zero
\* and Total_Loss is the sum of the energy, force and (if enabled) stress terms.
C4_MissingLabelsMasked ==
    (StepDone /\ SiteOn /\ self.allow_missing_labels) =>
        /\ ~IsNaN(results.Total_Loss)
        /\ ~IsNaN(results.Site_Wise_MAE)
        /\ ~IsNaN(results.Site_Wise_RMSE.sqrt_of)
        /\ results = PotentialStepResults(C4_Unmasking, C4_MaskedBatch).results
        /\ Len(KeptPairs) = 0 =>
              /\ results.Site_Wise_MAE = F(0)
              /\ results.Site_Wise_RMSE = Root(F(0))
              /\ results.Total_Loss = BaseTerms

\* Two sites, one with a label and one without
C4_Witness ==
    /\ StepDone /\ SiteOn /\ self.allow_missing_labels
    /\ Len(batch.site_wise) = 2
    /\ Len(KeptPairs) = 1
    /\ results.Site_Wise_MAE # F(0)

\* The loss of one element, and its per-site minimum over the two signs
ElementLoss(fn, x, y) ==
    CASE fn = "mse_loss" -> SquaredError(x, y)
      [] fn = "huber_loss" -> HuberError(x, y)
      [] OTHER -> AbsoluteError(x, y)

C5_PerSiteMinimum ==
    Mean([i \in 1..Len(KeptPairs) |->
            Smaller(ElementLoss(self.loss, KeptLabels[i], KeptPreds[i]),
                    ElementLoss(self.loss, FNeg(KeptLabels[i]), KeptPreds[i]))])

C5_SymbreakCase ==
    StepDone /\ SiteOn /\ self.site_wise_target = "symbreak" /\ Len(KeptPairs) > 0

\* C5 as stated: under "symbreak" the site-wise loss is the mean over the sites
\* of the smaller of the site's loss against +label and against -label.
C5_ElementwiseAsStated ==
    C5_SymbreakCase =>
        results.Total_Loss =
            FAdd(BaseTerms, FMul(F(self.site_wise_weight), C5_PerSiteMinimum))

\* C5 amended: under "symbreak" the site-wise loss is the smaller of the two
\* reduced losses, the mean loss against +label and the mean loss against
\* -label: one sign for all sites, chosen after the reduction.
C5_MinimumOfReducedLosses ==
    C5_SymbreakCase =>
        results.Total_Loss =
            FAdd(BaseTerms,
                 FMul(F(self.site_wise_weight),
                      Smaller(Loss(self.loss, KeptLabels, KeptPreds),
                              Loss(self.loss, Negated(KeptLabels), KeptPreds))))

\* Two sites whose better signs differ, and the flipped sign is the better one
C5_Witness ==
    /\ C5_SymbreakCase
    /\ Len(KeptPairs) = 2
    /\ C5_PerSiteMinimum # Loss(self.loss, Negated(KeptLabels), KeptPreds)
    /\ FLess(Loss(self.loss, Negated(KeptLabels), KeptPreds),
             Loss(self.loss, KeptLabels, KeptPreds))

\* The batch with every site-wise prediction negated
C6_FlippedBatch == [batch EXCEPT !.m = Negated(batch.m)]

\* C6: under "symbreak" the whole result of loss_fn (the site-wise loss term in
\* Total_Loss, Site_Wise_MAE, Site_Wise_RMSE) is the same for the predictions
\* and for their negation.
C6_SignFlipInvariant ==
    (StepDone /\ SiteOn /\ self.site_wise_target = "symbreak") =>
        results = PotentialStepResults(self, C6_FlippedBatch).results

\* The two signs give different losses
C6_Witness ==
    /\ StepDone /\ SiteOn /\ self.site_wise_target = "symbreak"
    /\ Len(KeptPairs) > 0
    /\ Loss(self.loss, KeptLabels, KeptPreds)
         # Loss(self.loss, KeptLabels, Negated(KeptPreds))
    /\ ~IsNaN(results.Total_Loss)

----------------------------------------------------------------------------
(* Properties of checkpoint loading, the training loop and xavier_init *)

SavedBefore == DOMAIN checkpoint.state_dict
LiveKeys == DOMAIN live

\* What one call of on_load_checkpoint may change
C7_BackfillStep ==
    (ckPc = "pending" /\ ckPc' # "pending") =>
        /\ ckPc' = "done"
        /\ DOMAIN checkpoint'.state_dict = SavedBefore \cup LiveKeys
        /\ \A k \in LiveKeys \ SavedBefore : checkpoint'.state_dict[k] = live[k]
        /\ \A k \in SavedBefore : checkpoint'.state_dict[k] = checkpoint.state_dict[k]
        /\ checkpoint'.epoch = checkpoint.epoch
        /\ live' = live

\* C7: on_load_checkpoint leaves every key of the live model's state in
\* checkpoint["state_dict"]; a key that was absent maps to the live value, a
\* key that was saved keeps its saved value, keys only in the saved state stay
\* as they are, the live state is not modified, and the call ends normally
\* whatever keys are missing.
C7_Backfill == [][C7_BackfillStep]_vars

\* After the call: one key backfilled, one kept from the saved state where the
\* live model has it too, and one that only the saved state has
C7_Witness ==
    /\ ckPc = "done"
    /\ \E k \in LiveKeys : checkpoint.state_dict[k] = live[k]
    /\ \E k \in LiveKeys : checkpoint.state_dict[k] # live[k]
    /\ \E k \in DOMAIN checkpoint.state_dict : k \notin LiveKeys

\* C8: the scheduler is stepped once per training-epoch end and by no training,
\* validation, test or predict step: after k completed training epochs it has
\* been stepped k times, whatever the number of batches.
C8_OneSchedulerStepPerEpoch == sched = epochs

\* Two epochs of different lengths, with validation and test steps run
C8_Witness ==
    /\ epochs = 2 /\ sched = 2
    /\ globalStep = 3
    /\ {"train_", "val_", "test_"} \subseteq logged

\* The parameters xavier_init has gone through when it returns
XavierReturned == xRet.pc = "returned"
LastComponentIsBias(name) ==
    name = <<"b", "i", "a", "s">> \/ EndsWith(name, <<".", "b", "i", "a", "s">>)

\* The bound of parameter i as the claim gives it
C9_BoundOf(i) == Root(Rat(6 * xArgs.gain * xArgs.gain, 2 * xArgs.model[i].shape[1]))

\* C9: a parameter of rank < 2 that is not bias-named gets, with
\* bound = gain*sqrt(6)/sqrt(2*fan), a uniform draw from [-bound, bound] under
\* "uniform" and a normal draw with mean 0 and standard deviation bound under
\* "normal".
C9_LowRankAsStated ==
    XavierReturned =>
        \A i \in 1..Len(xArgs.model) :
            (Len(xArgs.model[i].shape) = 1 /\ ~LastComponentIsBias(xArgs.model[i].name)) =>
                IF xArgs.distribution = "uniform"
                THEN xRet.params[i].data =
                        [fill |-> "uniform", low |-> [minus |-> C9_BoundOf(i)],
                         high |-> C9_BoundOf(i)]
                ELSE xRet.params[i].data =
                        [fill |-> "normal", mean |-> F(0), std |-> C9_BoundOf(i)]

\* C10: every bias-named parameter is filled with zeros, whatever its rank and
\* wherever it sits in the module tree ("bias" on the top-level model as well
\* as "layer.bias"); none gets a random initialization.
C10_EveryBiasZeroed ==
    XavierReturned =>
        \A i \in 1..Len(xArgs.model) :
            LastComponentIsBias(xArgs.model[i].name) =>
                xRet.params[i].data = [fill |-> "zeros"]

\* C11: xavier_init with a distribution other than "uniform" and "normal" fails
\* with a ValueError naming the option, and no parameter of the model has been
\* modified when it fails.
C11_InvalidDistributionRejected ==
    (xRet # Pending /\ xArgs.distribution \notin {"uniform", "normal"}) =>
        /\ xRet.pc = "raised"
        /\ xRet.error = "ValueError"
        /\ xRet.message = xArgs.distribution
        /\ \A i \in 1..Len(xArgs.model) : xRet.params[i].data = AsConstructed
        /\ xRet.params = xArgs.model

\* "gaussian" given for a model of a bias and a weight matrix
C11_Witness ==
    /\ xRet # Pending
    /\ xArgs.distribution = "gaussian"
    /\ xRet.pc = "raised"
    /\ Len(xArgs.model) = 2
    /\ \E i \in 1..2 : IsBiasName(xArgs.model[i].name)
    /\ \E i \in 1..2 : Len(xArgs.model[i].shape) = 2

\* The lattice argument with its second and third lattice rows zeroed
FirstRowOnly(lattice_matrix) ==
    << <<lattice_matrix[1][1], (<<0, 0, 0>>), (<<0, 0, 0>>)>> >>

\* The shifts get_graph gives for the same input with the lattice replaced
ShiftsWithLattice(lattice_matrix) ==
    get_graph(gArgs.structure, gArgs.src_id, gArgs.dst_id, gArgs.images,
              lattice_matrix, gArgs.Z, gArgs.element_types,
              gArgs.cart_coords).edata.pbc_offshift

C13_EdgesAsGiven ==
    GraphReturned =>
        LET m == Len(gArgs.src_id)
        IN  /\ Len(gRet.edges.src) = m
            /\ Len(gRet.edges.dst) = m
            /\ Len(gRet.edata.pbc_offset) = m
            /\ Len(gRet.edata.lattice) = m
            /\ \A i \in 1..m :
                  /\ gRet.edges.src[i] = gArgs.src_id[i]
                  /\ gRet.edges.dst[i] = gArgs.dst_id[i]
                  /\ gRet.edata.pbc_offset[i] = gArgs.images[i]
                  /\ gRet.edata.lattice[i] = gArgs.lattice_matrix[1]
            /\ (gArgs = CompleteDigraph) => (gRet.num_nodes = 4 /\ m = 12)

\* The complete graph on 4 atoms, converted
C13_Witness ==
    /\ GraphReturned
    /\ gArgs = CompleteDigraph
    /\ gRet.num_nodes = 4
    /\ Len(gRet.edges.src) = 12
    /\ gRet.edges.src[4] = 1 /\ gRet.edges.dst[4] = 0

\* C14: for all x, mean and std # 0, inverse_transform(transform(x)) == x;
\* Normalizer(mean=2.0, std=0.5) maps 3.0 to 2.0 and 2.0 back to 3.0; neither
\* operation changes the stored mean or std.
C14_RoundTripAsStated ==
    /\ normalizer = Normalizer(nArgs.mean, nArgs.std)
    /\ nOp = "round_trip" => nData = nArgs.data
    /\ (nArgs.mean = F(2) /\ nArgs.std = Rat(1, 2) /\ nArgs.data = F(3)) =>
          /\ nOp = "transform" => nData = F(2)
          /\ nOp = "round_trip" => nData = F(3)

\* The real number (x - mean) / std
ExactTransform == FDiv(FSub(nArgs.data, nArgs.mean), nArgs.std)

\* C14, amended: inverse_transform(transform(x)) equals x up to floating-point
\* rounding, |result - x| <= 5 * 2^-MantissaBits * (|x| + |mean|), and equals
\* x exactly when transform(x) is the real number (x - mean) / std, as for
\* mean=2.0, std=0.5, x=3.0 (3.0 -> 2.0 -> 3.0); neither operation changes
\* the stored mean or std.
C14_RoundTripWithinTolerance ==
    /\ normalizer = Normalizer(nArgs.mean, nArgs.std)
    /\ nOp = "round_trip" =>
          /\ FLeq(FAbs(FSub(nData, nArgs.data)),
                  FMul(Rat(5, Pow2(MantissaBits)),
                       FAdd(FAbs(nArgs.data), FAbs(nArgs.mean))))
          /\ (transform(normalizer, nArgs.data) = ExactTransform) => nData = nArgs.data
    /\ (nArgs.mean = F(2) /\ nArgs.std = Rat(1, 2) /\ nArgs.data = F(3)) =>
          /\ nOp = "transform" => nData = F(2)
          /\ nOp = "round_trip" => nData = F(3)

\* A round trip through a division that rounds, with a mean that is not zero
C14_Witness ==
    /\ nOp = "round_trip"
    /\ nArgs.mean # F(0)
    /\ transform(normalizer, nArgs.data) # ExactTransform
    /\ nData # nArgs.data

\* Every label and prediction of the batch is a finite number
C15_FiniteBatch ==
    self.model.calc_site_wise =>
        \A i \in 1..Len(batch.site_wise) : ~IsNaN(batch.site_wise[i]) /\ ~IsNaN(batch.m[i])

\* C15: Total_Loss is >= 0 for every finite input, whichever terms are
\* enabled (stress on/off, site-wise on/off, missing-label masking on/off, any
\* site-wise target policy) and whichever of the three losses is selected.
C15_TotalNonNegative ==
    (StepDone /\ C15_FiniteBatch) =>
        /\ ~IsNaN(results.Total_Loss)
        /\ results.Total_Loss.n >= 0 /\ results.Total_Loss.d > 0

\* A positive total of all four terms under the Huber loss and symbreak
C15_Witness ==
    /\ StepDone /\ C15_FiniteBatch
    /\ StressOn /\ SiteOn
    /\ self.hparams.loss = "huber_loss"
    /\ self.site_wise_target = "symbreak"
    /\ Len(batch.site_wise) = 2
    /\ results.Total_Loss.n > 0

\* The labels the site-wise predictions are compared with under a target
\* policy other than symbreak
C16_Compared ==
    IF self.site_wise_target = "absolute" THEN Magnitudes(KeptLabels) ELSE KeptLabels

C16_WitnessOther ==
    /\ StepDone /\ SiteOn
    /\ self.site_wise_target = "signed"
    /\ Len(KeptPairs) = 2
    /\ \E i \in 1..2 : ~IsNaN(KeptLabels[i]) /\ KeptLabels[i].n < 0
    /\ results.Site_Wise_MAE = l1_loss(KeptLabels, KeptPreds)

\* The prediction in target units, and its errors against the labels
C17_Rescaled ==
    [i \in 1..Len(batch.preds) |->
        FAdd(FMul(batch.preds[i], self.hparams.data_std), self.hparams.data_mean)]
C17_Errors == [i \in 1..Len(batch.labels) |-> FSub(batch.labels[i], C17_Rescaled[i])]
C17_MeanSquared == Mean([i \in 1..Len(C17_Errors) |-> FMul(C17_Errors[i], C17_Errors[i])])
C17_MeanAbsolute == Mean([i \in 1..Len(C17_Errors) |-> FAbs(C17_Errors[i])])

\* C17: in a ModelLightningModule step (training, validation and test alike)
\* the raw prediction is rescaled as pred*data_std + data_mean, Total_Loss is
\* the mean-squared error when loss == "mse_loss" and the mean-absolute error
\* otherwise, between the rescaled prediction and the label, MAE and RMSE are
\* computed on the same pair, and the result has exactly the keys Total_Loss,
\* MAE and RMSE; training_step and validation_step return Total_Loss.
C17_ModelStep ==
    results # Pending =>
        /\ results.hook \in {"training_step", "validation_step", "test_step"}
        /\ DOMAIN results.results = {"Total_Loss", "MAE", "RMSE"}
        /\ results.results.Total_Loss =
              IF self.hparams.loss = "mse_loss" THEN C17_MeanSquared ELSE C17_MeanAbsolute
        /\ results.results.MAE = C17_MeanAbsolute
        /\ results.results.RMSE = Root(C17_MeanSquared)
        /\ results.hook \in {"training_step", "validation_step"} =>
              results.returned = results.results.Total_Loss

\* A validation step under loss "huber_loss" with data_std 2 and data_mean 1:
\* the total is the mean-absolute error of the rescaled prediction
C17_Witness ==
    /\ results # Pending
    /\ results.hook = "validation_step"
    /\ self.hparams.loss = "huber_loss"
    /\ self.hparams.data_std = F(2) /\ self.hparams.data_mean = F(1)
    /\ Len(batch.labels) = 2
    /\ results.returned = C17_MeanAbsolute
    /\ C17_MeanAbsolute # C17_MeanSquared
    /\ C17_MeanAbsolute # l1_loss(batch.labels, batch.preds)

\* Some atom's species is not in element_types
C18_UnknownSpecies ==
    \E i \in 1..Len(gArgs.structure) : gArgs.structure[i] \notin Range(gArgs.element_types)

\* C18: if any atom of the structure has a species that is not in
\* element_types, get_graph fails and returns no graph; when every species is
\* in element_types, each node's node_type is the position (from 0) of that
\* atom's species in element_types.
C18_SpeciesLookup ==
    gRet # Pending =>
        IF C18_UnknownSpecies
        THEN /\ gRet.pc = "raised"
             /\ gRet.error = "ValueError"
             /\ DOMAIN gRet = {"pc", "error"}
        ELSE /\ GraphReturned
             /\ Len(gRet.ndata.node_type) = Len(gArgs.structure)
             /\ \A i \in 1..Len(gArgs.structure) :
                   /\ gRet.ndata.node_type[i] \in 0..(Len(gArgs.element_types) - 1)
                   /\ gArgs.element_types[gRet.ndata.node_type[i] + 1] = gArgs.structure[i]

\* A structure with lithium converted with a vocabulary of oxygen alone
C18_Witness ==
    /\ gRet # Pending
    /\ gArgs.element_types = <<"O">>
    /\ \E i \in 1..Len(gArgs.structure) : gArgs.structure[i] = "Li"
    /\ \E i \in 1..Len(gArgs.structure) : gArgs.structure[i] = "O"
    /\ gRet.pc = "raised"

\* Lithium and oxygen typed by the vocabulary (O, Li): types 1 and 0
C18_WitnessTyped ==
    /\ GraphReturned
    /\ gArgs.element_types = <<"O", "Li">>
    /\ gArgs.structure = <<"Li", "O", "Li">>
    /\ gRet.ndata.node_type = <<1, 0, 1>>

\* What one call of a hook does to the gradient mode
C19_GradStep ==
    /\ gradEnabled => gradEnabled'
    /\ hook' \in {"test_step", "predict_step", "on_test_model_eval"} => gradEnabled'
    /\ (kind = "Potential" /\ hook' \in {"training_step", "validation_step"}) => gradEnabled'
    /\ (kind = "Model" /\ hook' \in {"training_step", "validation_step"}) =>
          gradEnabled' = gradEnabled
    /\ "test_" \in logged' => gradEnabled'

\* C19: test_step, predict_step, on_test_model_eval and every step of a
\* PotentialLightningModule leave gradient computation enabled; no hook ever
\* disables it or restores the previous mode, so once one of them has run the
\* mode is enabled after every later hook (later validation steps included);
\* training_step and validation_step of a ModelLightningModule leave the mode
\* as it was.
C19_GradModeNeverDisabled == [][C19_GradStep]_vars

\* A validation step of a ModelLightningModule after a test step: gradients
\* are enabled
C19_Witness ==
    /\ kind = "Model"
    /\ hook = "validation_step"
    /\ "test_" \in logged /\ "val_" \in logged
    /\ gradEnabled

\* A validation step of a ModelLightningModule started with gradients
\* disabled: they stay disabled
C19_WitnessUnchanged ==
    /\ kind = "Model"
    /\ hook = "validation_step"
    /\ ~gradEnabled

====
